---- MODULE Spec2Model ----
(***************************************************************************)
(* prml.linear.regressor.Regressor: the validation and dispatch layer      *)
(* shared by every regressor.  Each public method validates its arguments, *)
(* probes the instance for the private implementation with hasattr and     *)
(* either forwards the call or raises NotImplementedError.                 *)
(*                                                                         *)
(* A Python value is modelled by what the layer looks at: its type, and    *)
(* for an np.ndarray its dtype and shape.  The private implementations     *)
(* (_ml, _map, ...) live in subclasses; they are modelled by a recorder    *)
(* that logs what it was called with and writes the fitted parameters.     *)
(***************************************************************************)
EXTENDS Integers, Sequences, FiniteSets, TLC

VARIABLES
    attrs,       \* names for which hasattr(self, name) holds
    n_features,  \* value of self.n_features (0 while the attribute is absent)
    fitted,      \* whether an estimator has written the fitted parameters
    call,        \* the call that has just returned: op and arguments
    raised,      \* the exception that call raised (NoExc when it returned)
    invoked,     \* the private implementations that call invoked, in order
    returned,    \* the value that call returned
    pre,         \* history: the model as it was when that call started
    recent,      \* history: op and outcome of the latest call so far
    flipped      \* history: the call before it was the same op, passed validation
                 \* too, and met the opposite answer on the capability

vars == <<attrs, n_features, fitted, call, raised, invoked, returned,
          pre, recent, flipped>>

----------------------------------------------------------------------------
(* Bounds *)

MaxRank == 3        \* feature arguments have 1..MaxRank dimensions
MaxDim == 2         \* column counts and n_features range over 1..MaxDim
SampleSize == 2     \* rows of X; targets have SampleSize - 1 or SampleSize entries

----------------------------------------------------------------------------
(* Python values *)

Value(type, dtype, shape) == [type |-> type, dtype |-> dtype, shape |-> shape]
None == Value("NoneType", "", <<>>)
List == Value("list", "", <<>>)
NdArray(dtype, shape) == Value("ndarray", dtype, shape)

\* isinstance(v, np.ndarray)
IsNdArray(v) == v.type = "ndarray"
\* v.ndim
Ndim(v) == Len(v.shape)
\* np.size(v, axis), axis counted from 0
Size(v, axis) == v.shape[axis + 1]
\* whether the elements of the array are numbers (the layer never reads the
\* dtype; the properties about element types do)
IsNumeric(v) == v.dtype \in {"float64", "int64"}

Dims == 1..MaxDim
\* the shape with r dimensions, c columns, and n entries along the others
ShapeOf(r, n, c) == [i \in 1..r |-> IF i = 2 THEN c ELSE n]
\* feature arguments: every column count for matrices, one shape per other rank
XShapes ==
    {ShapeOf(2, SampleSize, c) : c \in Dims}
    \cup {ShapeOf(r, SampleSize, SampleSize) : r \in (1..MaxRank) \ {2}}
\* target arguments: vectors as long as X and one shorter, and a matrix
TShapes ==
    {ShapeOf(1, n, n) : n \in {SampleSize - 1, SampleSize}}
    \cup {ShapeOf(2, SampleSize, SampleSize)}

XInputs ==
    {List}
    \cup {NdArray("float64", s) : s \in XShapes}
    \cup {NdArray("object", ShapeOf(2, SampleSize, 1))}

TInputs ==
    {List}
    \cup {NdArray("float64", s) : s \in TShapes}
    \cup {NdArray("object", ShapeOf(1, SampleSize, 1))}

\* keyword arguments as the caller writes them: (name, value) pairs, names distinct
OptKeys == {"return_std"}
OptVals == BOOLEAN
Unpack(d) == {<<k, d[k]>> : k \in DOMAIN d}
Pack(pairs) == [k \in {p[1] : p \in pairs} |-> (CHOOSE p \in pairs : p[1] = k)[2]]
KwInputs == {Unpack(d) : d \in UNION {[K -> OptVals] : K \in SUBSET OptKeys}}

----------------------------------------------------------------------------
(* The model object *)

Capabilities == {"_ml", "_map", "_bayes", "_empirical_bayes", "_predict"}
Estimators == {"_ml", "_map", "_bayes", "_empirical_bayes"}
Ops == {"ml", "map", "bayes", "empirical_bayes", "predict"}

\* the private method a public method looks for
ImplOf(op) ==
    CASE op = "ml" -> "_ml"
      [] op = "map" -> "_map"
      [] op = "bayes" -> "_bayes"
      [] op = "empirical_bayes" -> "_empirical_bayes"
      [] op = "predict" -> "_predict"

Exc(type, msg, args) == [type |-> type, msg |-> msg, args |-> args]
NoExc == Exc("none", "", <<>>)
NoCall == [op |-> "none", X |-> None, t |-> None, kwargs |-> {}]
NoHistory == [op |-> "none", outcome |-> "n/a"]

Self == [attrs |-> attrs, n_features |-> n_features, fitted |-> fitted]

\* variant: the answer of the previous probe for the same capability is reused
HasAttr_Cached(name) ==
    IF /\ recent.op # "none"
       /\ ImplOf(recent.op) = name
       /\ recent.outcome \in {"none", "NotImplementedError"}
    THEN recent.outcome = "none"
    ELSE name \in attrs

HasAttr(name) == name \in attrs

\* variant: only arrays of fewer than two dimensions are refused
CheckInput_RankAtLeast2(X) ==
    IF ~IsNdArray(X) THEN
        Exc("ValueError", "X(input) is not np.ndarray", <<>>)
    ELSE IF Ndim(X) < 2 THEN
        Exc("ValueError", "X(input) is not two dimensional array", <<>>)
    ELSE IF HasAttr("n_features") /\ n_features # Size(X, 1) THEN
        Exc("ValueError", "mismatch in dimension 1 of X(input)",
            <<Size(X, 1), n_features>>)
    ELSE NoExc

\* variant: n_features is compared with the row count
CheckInput_Rows(X) ==
    IF ~IsNdArray(X) THEN
        Exc("ValueError", "X(input) is not np.ndarray", <<>>)
    ELSE IF Ndim(X) # 2 THEN
        Exc("ValueError", "X(input) is not two dimensional array", <<>>)
    ELSE IF HasAttr("n_features") /\ n_features # Size(X, 0) THEN
        Exc("ValueError", "mismatch in dimension 1 of X(input)",
            <<Size(X, 1), n_features>>)
    ELSE NoExc

\* variant: the element type is checked as well
CheckInput_Dtype(X) ==
    IF ~(IsNdArray(X) /\ IsNumeric(X)) THEN
        Exc("ValueError", "X(input) is not np.ndarray", <<>>)
    ELSE IF Ndim(X) # 2 THEN
        Exc("ValueError", "X(input) is not two dimensional array", <<>>)
    ELSE IF HasAttr("n_features") /\ n_features # Size(X, 1) THEN
        Exc("ValueError", "mismatch in dimension 1 of X(input)",
            <<Size(X, 1), n_features>>)
    ELSE NoExc

CheckInput(X) ==
    IF ~IsNdArray(X) THEN
        Exc("ValueError", "X(input) is not np.ndarray", <<>>)
    ELSE IF Ndim(X) # 2 THEN
        Exc("ValueError", "X(input) is not two dimensional array", <<>>)
    ELSE IF HasAttr("n_features") /\ n_features # Size(X, 1) THEN
        Exc("ValueError", "mismatch in dimension 1 of X(input)",
            <<Size(X, 1), n_features>>)
    ELSE NoExc

\* variant: only targets without any dimension are refused
CheckTarget_Scalar(t) ==
    IF ~IsNdArray(t) THEN
        Exc("ValueError", "t(target) must be np.ndarray", <<>>)
    ELSE IF Ndim(t) = 0 THEN
        Exc("ValueError", "t(target) must be one dimenional array", <<>>)
    ELSE NoExc

CheckTarget(t) ==
    IF ~IsNdArray(t) THEN
        Exc("ValueError", "t(target) must be np.ndarray", <<>>)
    ELSE IF Ndim(t) # 1 THEN
        Exc("ValueError", "t(target) must be one dimenional array", <<>>)
    ELSE NoExc

\* bookkeeping common to every return from a public method
Record(op, X, t, kw) ==
    /\ call' = [op |-> op, X |-> X, t |-> t, kwargs |-> kw]
    /\ pre' = Self
    /\ recent' = [op |-> op, outcome |-> raised'.type]
    /\ flipped' = /\ recent.op = op
                   /\ recent.outcome \in {"none", "NotImplementedError"}
                   /\ raised'.type \in {"none", "NotImplementedError"}
                   /\ recent.outcome # raised'.type

Raise(exc) ==
    /\ raised' = exc
    /\ invoked' = <<>>
    /\ returned' = None
    /\ UNCHANGED <<attrs, n_features, fitted>>

\* a concrete estimator: writes the fitted parameters once and may record
\* the feature count it was fitted on
InvokeEstimator(impl, X, t, kw) ==
    /\ invoked' = <<[impl |-> impl, X |-> X, t |-> t, kwargs |-> kw]>>
    /\ fitted' = TRUE
    /\ \E fix \in BOOLEAN :
        IF fix /\ ~HasAttr("n_features")
        THEN attrs' = attrs \cup {"n_features"} /\ n_features' = Size(X, 1)
        ELSE UNCHANGED <<attrs, n_features>>
    /\ raised' = NoExc
    /\ returned' = None

\* a concrete predictor: reads the model and answers one value per row
InvokePredictor(impl, X, kw) ==
    /\ invoked' = <<[impl |-> impl, X |-> X, t |-> None, kwargs |-> kw]>>
    /\ raised' = NoExc
    /\ returned' = NdArray("float64", <<Size(X, 0)>>)
    /\ UNCHANGED <<attrs, n_features, fitted>>

----------------------------------------------------------------------------
(* The public methods *)

\* variant: the target is also required to have one entry per row of X
ml_CheckLength(X, t) ==
    /\ LET ex == CheckInput(X)
           et == CheckTarget(t)
       IN  IF ex # NoExc THEN Raise(ex)
           ELSE IF et # NoExc THEN Raise(et)
           ELSE IF Size(t, 0) # Size(X, 0)
                THEN Raise(Exc("ValueError", "mismatch in dimension 0", <<>>))
           ELSE IF HasAttr("_ml") THEN InvokeEstimator("_ml", X, t, {})
           ELSE Raise(Exc("NotImplementedError", "", <<>>))
    /\ Record("ml", X, t, {})

ml(X, t) ==
    /\ LET ex == CheckInput(X)
           et == CheckTarget(t)
       IN  IF ex # NoExc THEN Raise(ex)
           ELSE IF et # NoExc THEN Raise(et)
           ELSE IF HasAttr("_ml") THEN InvokeEstimator("_ml", X, t, {})
           ELSE Raise(Exc("NotImplementedError", "", <<>>))
    /\ Record("ml", X, t, {})

\* variant: the body of ml copied without renaming the private method
map_ViaMl(X, t) ==
    /\ LET ex == CheckInput(X)
           et == CheckTarget(t)
       IN  IF ex # NoExc THEN Raise(ex)
           ELSE IF et # NoExc THEN Raise(et)
           ELSE IF HasAttr("_ml") THEN InvokeEstimator("_ml", X, t, {})
           ELSE Raise(Exc("NotImplementedError", "", <<>>))
    /\ Record("map", X, t, {})

map(X, t) ==
    /\ LET ex == CheckInput(X)
           et == CheckTarget(t)
       IN  IF ex # NoExc THEN Raise(ex)
           ELSE IF et # NoExc THEN Raise(et)
           ELSE IF HasAttr("_map") THEN InvokeEstimator("_map", X, t, {})
           ELSE Raise(Exc("NotImplementedError", "", <<>>))
    /\ Record("map", X, t, {})

\* variant: a model without _bayes falls back on _map
bayes_Fallback(X, t) ==
    /\ LET ex == CheckInput(X)
           et == CheckTarget(t)
       IN  IF ex # NoExc THEN Raise(ex)
           ELSE IF et # NoExc THEN Raise(et)
           ELSE IF HasAttr("_bayes") THEN InvokeEstimator("_bayes", X, t, {})
           ELSE IF HasAttr("_map") THEN InvokeEstimator("_map", X, t, {})
           ELSE Raise(Exc("NotImplementedError", "", <<>>))
    /\ Record("bayes", X, t, {})

bayes(X, t) ==
    /\ LET ex == CheckInput(X)
           et == CheckTarget(t)
       IN  IF ex # NoExc THEN Raise(ex)
           ELSE IF et # NoExc THEN Raise(et)
           ELSE IF HasAttr("_bayes") THEN InvokeEstimator("_bayes", X, t, {})
           ELSE Raise(Exc("NotImplementedError", "", <<>>))
    /\ Record("bayes", X, t, {})

empirical_bayes(X, t, pairs) ==
    /\ LET kwargs == Pack(pairs)
           ex == CheckInput(X)
           et == CheckTarget(t)
       IN  IF ex # NoExc THEN Raise(ex)
           ELSE IF et # NoExc THEN Raise(et)
           ELSE IF HasAttr("_empirical_bayes")
                THEN InvokeEstimator("_empirical_bayes", X, t, Unpack(kwargs))
           ELSE Raise(Exc("NotImplementedError", "", <<>>))
    /\ Record("empirical_bayes", X, t, pairs)

\* variant: the keyword arguments are not passed on
predict_DropsKwargs(X, pairs) ==
    /\ LET kwargs == Pack(pairs)
           ex == CheckInput(X)
       IN  IF ex # NoExc THEN Raise(ex)
           ELSE IF HasAttr("_predict")
                THEN InvokePredictor("_predict", X, {})
           ELSE Raise(Exc("NotImplementedError", "", <<>>))
    /\ Record("predict", X, None, pairs)

\* variant: prediction is refused until an estimator has written the parameters
predict_RequiresFit(X, pairs) ==
    /\ LET kwargs == Pack(pairs)
           ex == CheckInput(X)
       IN  IF ex # NoExc THEN Raise(ex)
           ELSE IF HasAttr("_predict") /\ fitted
                THEN InvokePredictor("_predict", X, Unpack(kwargs))
           ELSE Raise(Exc("NotImplementedError", "", <<>>))
    /\ Record("predict", X, None, pairs)

predict(X, pairs) ==
    /\ LET kwargs == Pack(pairs)
           ex == CheckInput(X)
       IN  IF ex # NoExc THEN Raise(ex)
           ELSE IF HasAttr("_predict")
                THEN InvokePredictor("_predict", X, Unpack(kwargs))
           ELSE Raise(Exc("NotImplementedError", "", <<>>))
    /\ Record("predict", X, None, pairs)

----------------------------------------------------------------------------
(* The surrounding program: it may give the instance a capability or take  *)
(* one away between calls.                                                 *)

Forget ==
    /\ call' = NoCall
    /\ raised' = NoExc
    /\ invoked' = <<>>
    /\ returned' = None
    /\ pre' = [attrs |-> attrs', n_features |-> n_features, fitted |-> fitted]
    /\ flipped' = FALSE
    /\ UNCHANGED <<n_features, fitted, recent>>

SetAttr(name) ==
    /\ name \notin attrs
    /\ attrs' = attrs \cup {name}
    /\ Forget

DelAttr(name) ==
    /\ name \in attrs
    /\ attrs' = attrs \ {name}
    /\ Forget

----------------------------------------------------------------------------

Init ==
    /\ \E caps \in SUBSET Capabilities :
       \E k \in 0..MaxDim :
        /\ attrs = caps \cup (IF k = 0 THEN {} ELSE {"n_features"})
        /\ n_features = k
    /\ fitted = FALSE
    /\ call = NoCall
    /\ raised = NoExc
    /\ invoked = <<>>
    /\ returned = None
    /\ pre = Self
    /\ recent = NoHistory
    /\ flipped = FALSE

Next ==
    \/ \E X \in XInputs, t \in TInputs : ml(X, t)
    \/ \E X \in XInputs, t \in TInputs : map(X, t)
    \/ \E X \in XInputs, t \in TInputs : bayes(X, t)
    \/ \E X \in XInputs, t \in TInputs, kw \in KwInputs : empirical_bayes(X, t, kw)
    \/ \E X \in XInputs, kw \in KwInputs : predict(X, kw)
    \/ \E name \in Capabilities : SetAttr(name)
    \/ \E name \in Capabilities : DelAttr(name)

Spec == Init /\ [][Next]_vars

TypeOK ==
    /\ attrs \subseteq Capabilities \cup {"n_features"}
    /\ n_features \in 0..MaxDim
    /\ fitted \in BOOLEAN
    /\ raised.type \in {"none", "ValueError", "NotImplementedError"}
    /\ Len(invoked) <= 1

----------------------------------------------------------------------------
(* Properties.  They speak of the call that has just returned (call, raised, *)
(* invoked) and of the model as that call found it (pre).                  *)

Called == call.op # "none"
Estimating == call.op \in Ops \ {"predict"}
Dispatched == Len(invoked) = 1 /\ raised = NoExc
Untouched == Self = pre
HadCapability == ImplOf(call.op) \in pre.attrs

\* X is a two dimensional array whose column count agrees with a fixed n_features
XAccepted ==
    /\ IsNdArray(call.X)
    /\ Ndim(call.X) = 2
    /\ "n_features" \in pre.attrs => pre.n_features = Size(call.X, 1)
\* t is a one dimensional array (predict takes no t)
TAccepted == Estimating => IsNdArray(call.t) /\ Ndim(call.t) = 1
ArgsAccepted == XAccepted /\ TAccepted

\* C1: a call of any of the five methods with an array X whose number of
\* dimensions is not 2 raises ValueError, invokes no private implementation
\* and leaves attributes, n_features and fitted parameters as they were.
C1_RankOfX ==
    Called /\ IsNdArray(call.X) /\ Ndim(call.X) # 2
    => raised.type = "ValueError" /\ invoked = <<>> /\ Untouched

C1_Witness ==
    /\ call.op = "predict"
    /\ IsNdArray(call.X) /\ Ndim(call.X) = 1
    /\ "_predict" \in pre.attrs /\ "n_features" \notin pre.attrs
    /\ raised.type = "ValueError"

\* C2: a call of ml, map, bayes or empirical_bayes with an acceptable X and
\* an array t whose number of dimensions is not 1 raises ValueError, invokes
\* no private implementation and leaves the model as it was.
C2_RankOfT ==
    Called /\ Estimating /\ XAccepted /\ IsNdArray(call.t) /\ Ndim(call.t) # 1
    => raised.type = "ValueError" /\ invoked = <<>> /\ Untouched

C2_Witness ==
    /\ call.op = "empirical_bayes"
    /\ XAccepted
    /\ IsNdArray(call.t) /\ Ndim(call.t) = 2
    /\ HadCapability
    /\ raised.type = "ValueError"

\* C3: when the model has n_features = k >= 1 at the time of the call, a call
\* of any of the five methods with a two dimensional X that does not have k
\* columns raises ValueError and invokes no private implementation, whatever
\* calls came before.
C3_ColumnCount ==
    /\ Called
    /\ "n_features" \in pre.attrs /\ pre.n_features >= 1
    /\ IsNdArray(call.X) /\ Ndim(call.X) = 2
    /\ Size(call.X, 1) # pre.n_features
    => raised.type = "ValueError" /\ invoked = <<>> /\ Untouched

C3_Witness ==
    /\ call.op = "predict"
    /\ "n_features" \in pre.attrs /\ pre.n_features = 2
    /\ pre.fitted
    /\ IsNdArray(call.X) /\ Ndim(call.X) = 2 /\ Size(call.X, 1) = 1
    /\ HadCapability
    /\ raised.type = "ValueError"

\* C4: when the model has the private method of the called operation and the
\* arguments are acceptable, exactly one private implementation is invoked,
\* and it is that of the called operation.
C4_OwnImplementationOnce ==
    Called /\ ArgsAccepted /\ HadCapability
    => /\ raised = NoExc
       /\ Len(invoked) = 1
       /\ invoked[1].impl = ImplOf(call.op)

C4_Witness ==
    /\ call.op = "map"
    /\ ArgsAccepted
    /\ pre.attrs \cap Capabilities = {"_map", "_bayes"}
    /\ Dispatched
    /\ fitted # pre.fitted

\* C5: when the model lacks the private method of the called operation and
\* the arguments are acceptable, the call raises NotImplementedError (not
\* ValueError), invokes no private implementation of any capability and
\* leaves the model as it was.
C5_NoCapability ==
    Called /\ ArgsAccepted /\ ~HadCapability
    => raised.type = "NotImplementedError" /\ invoked = <<>> /\ Untouched

C5_Witness ==
    /\ call.op = "bayes"
    /\ ArgsAccepted
    /\ pre.attrs \cap Capabilities = Capabilities \ {"_bayes"}
    /\ raised.type = "NotImplementedError"

C7_KwargsVerbatim ==
    /\ Called
    /\ call.op \in {"empirical_bayes", "predict"}
    /\ ArgsAccepted /\ HadCapability
    => /\ Len(invoked) = 1
       /\ invoked[1].kwargs = call.kwargs
       /\ invoked[1].X = call.X
       /\ invoked[1].t = call.t

C7_Witness ==
    /\ call.op = "predict"
    /\ call.kwargs # {}
    /\ Dispatched
    /\ invoked[1].kwargs = call.kwargs

\* C8: a call with acceptable arguments dispatches if and only if the model
\* has the private method at the time of that call, whatever an earlier call
\* of the same operation met.
C8_ProbedEveryCall ==
    Called /\ ArgsAccepted => (invoked # <<>> <=> HadCapability)

C8_Witness ==
    /\ Called
    /\ flipped
    /\ Dispatched
    /\ HadCapability

\* C9: the outcome of a call depends on the arguments, the attributes and
\* n_features only, not on whether or how often the model was fitted or on
\* the calls made before; in particular predict dispatches on a model that
\* no estimator has written yet.
C9_NoFitState ==
    Called
    => /\ raised.type = (IF ~ArgsAccepted THEN "ValueError"
                         ELSE IF ~HadCapability THEN "NotImplementedError"
                         ELSE "none")
       /\ call.op = "predict" /\ XAccepted /\ HadCapability /\ ~pre.fitted
            => Dispatched /\ invoked[1].impl = "_predict"

C9_Witness ==
    /\ call.op = "predict"
    /\ ~pre.fitted
    /\ recent.op = "predict"
    /\ Dispatched

\* C10: for a two dimensional X and a one dimensional t whose length is not
\* the number of rows of X, the estimation methods raise no ValueError: the
\* call goes on to the capability probe and dispatches or raises
\* NotImplementedError according to the capability alone.
C10_LengthNotCompared ==
    /\ Called /\ Estimating /\ ArgsAccepted
    /\ Size(call.t, 0) # Size(call.X, 0)
    => /\ raised.type # "ValueError"
       /\ raised.type = "NotImplementedError" <=> ~HadCapability
       /\ raised.type = "none" <=> HadCapability

C10_Witness ==
    /\ call.op = "ml"
    /\ ArgsAccepted
    /\ Size(call.t, 0) < Size(call.X, 0)
    /\ Dispatched
    /\ invoked[1].t = call.t

====
